---- MODULE Spec2Model ----
(***************************************************************************)
(* Model of io_import_pixelart.py: the operator ImportPixelArt.execute and *)
(* the function read_pixel_art, run against the host registries            *)
(* bpy.data.images / materials / meshes / objects.                         *)
(*                                                                         *)
(* A float sample v in [0,1] is the integer v * One; a string is the       *)
(* sequence of its pieces (path components, literal runs of a template,    *)
(* rendered digits); None is the id 0.                                     *)
(***************************************************************************)
EXTENDS Integers, Sequences, FiniteSets, TLC

\* largest number of pixels (width * height) and of rows of an imported image
MaxPixels == 4
MaxHeight == 2

\* the sample value 1.0; a sample s stands for the float s / One
One == 2 * 255

None == 0

----------------------------------------------------------------------------
(* Name templates and str.format                                           *)

PARENT_NAME == <<"{filename}">>
MATERIAL_NAME == <<"pixel_art_", "{color}">>
CUBE_NAME == <<"{filename}", "_", "{x}", "_", "{y}">>
MESH_NAME == <<"{filename}", "_", "{x}", "_", "{y}", "_mesh">>

\* a user-chosen material template that names materials by pixel column
MATERIAL_BY_X == <<"m_", "{x}">>

\* replacement fields of a format string: "{name}" looks up the keyword
\* argument name, "{0}" the first positional argument, "{" is an unmatched brace
NamedFields == {"{filename}", "{color}", "{x}", "{y}", "{use_nodes}", "{bogus}"}
PositionalFields == {"{0}"}
MalformedFields == {"{"}

HexDigits == <<"0", "1", "2", "3", "4", "5", "6", "7",
               "8", "9", "A", "B", "C", "D", "E", "F">>

\* '%02X' % int(v * 255)
Hex02X(v) ==
    LET byte == (v * 255) \div One
    IN  <<HexDigits[(byte \div 16) + 1], HexDigits[(byte % 16) + 1]>>

\* '%02X%02X%02X%02X' % (int(r * 255), int(g * 255), int(b * 255), int(a * 255))
StrColor(color) ==
    Hex02X(color[1]) \o Hex02X(color[2]) \o Hex02X(color[3]) \o Hex02X(color[4])

\* str(n) for a pixel coordinate
StrInt(n) == <<ToString(n)>>

\* 'nodes' if use_nodes else ''
StrUseNodes(use_nodes) == IF use_nodes THEN <<"nodes">> ELSE <<>>

\* os.path.split(filepath)[1]: what follows the last "/"
RECURSIVE Basename(_)
Basename(path) ==
    IF path = <<>> THEN <<>>
    ELSE IF \E i \in 1..Len(path) : path[i] = "/"
         THEN Basename(Tail(path))
         ELSE path

\* dict(filename=..., use_nodes=...)
ParentParams(filename, struse_nodes) ==
    [k \in {"{filename}", "{use_nodes}"} |->
        IF k = "{filename}" THEN filename ELSE struse_nodes]

\* dict(filename=..., color=..., x=..., y=..., use_nodes=...)
PixParams(filename, strcolor, x, y, struse_nodes) ==
    [k \in {"{filename}", "{color}", "{x}", "{y}", "{use_nodes}"} |->
        CASE k = "{filename}" -> filename
          [] k = "{color}" -> strcolor
          [] k = "{x}" -> StrInt(x)
          [] k = "{y}" -> StrInt(y)
          [] OTHER -> struse_nodes]

\* value.format(**params), left to right: the first field that cannot be
\* rendered raises; err is the exception type, out the rendered string
RECURSIVE FormatFrom(_, _, _, _)
FormatFrom(value, params, i, out) ==
    IF i > Len(value) THEN [err |-> "none", out |-> out]
    ELSE LET tok == value[i] IN
         CASE tok \in MalformedFields -> [err |-> "ValueError", out |-> <<>>]
           [] tok \in PositionalFields -> [err |-> "IndexError", out |-> <<>>]
           [] tok \in NamedFields ->
                IF tok \in DOMAIN params
                THEN FormatFrom(value, params, i + 1, out \o params[tok])
                ELSE [err |-> "KeyError", out |-> <<>>]
           [] OTHER -> FormatFrom(value, params, i + 1, Append(out, tok))

Format(value, params) == FormatFrom(value, params, 1, <<>>)

----------------------------------------------------------------------------
(* Inputs: operator properties, decodable files, host materials            *)

FILEPATH == <<"/", "tmp", "/", "a.png">>

\* the four name properties of the operator, as the user may have edited them
TemplateChoices ==
    { [parent_name |-> PARENT_NAME, material_name |-> m,
       mesh_name |-> MESH_NAME, cube_name |-> CUBE_NAME] :
         m \in {MATERIAL_NAME, MATERIAL_BY_X} }
    \cup
    { [parent_name |-> p, material_name |-> MATERIAL_NAME,
       mesh_name |-> MESH_NAME, cube_name |-> CUBE_NAME] :
         p \in {<<"{color}">>, <<"{bogus}">>, <<"{0}">>, <<"{">>} }
    \cup
    { [parent_name |-> PARENT_NAME, material_name |-> m,
       mesh_name |-> MESH_NAME, cube_name |-> c] :
         m \in {<<"{bogus}">>, <<"{">>}, c \in {CUBE_NAME, <<"{0}">>} }
    \cup
    { [parent_name |-> PARENT_NAME, material_name |-> MATERIAL_NAME,
       mesh_name |-> m, cube_name |-> c] :
         m \in {<<"{y}", "{bogus}">>, <<"{0}">>}, c \in {CUBE_NAME, <<"{bogus}">>} }

\* pixels a decoded file may hold, by channel count (samples in units of 1/One)
Palette(channels) ==
    CASE channels = 1 -> {<<One - 2>>, <<One - 1>>}
      [] channels = 2 -> {<<0, One>>, <<One, One>>}
      [] channels = 3 -> {<<One - 2, 0, 0>>, <<One - 1, 0, 0>>, <<0, One, 0>>}
      [] OTHER -> {<<One - 2, 0, 0, One>>, <<One, 0, 0, 0>>, <<One, 0, 0, 255>>}

\* image.pixels: the samples of all pixels, row after row
Flatten(pix, channels) ==
    [i \in 1..(Len(pix) * channels) |->
        pix[((i - 1) \div channels) + 1][((i - 1) % channels) + 1]]

\* what bpy.data.images.load may decode
Images ==
    UNION { { [channels |-> ch, width |-> w, height |-> h,
               pixels |-> Flatten(pix, ch)] :
                 pix \in [1..(w * h) -> Palette(ch)] } :
            <<ch, w, h>> \in { t \in (1..4) \X (1..MaxPixels) \X (1..MaxHeight) :
                                 t[2] * t[3] <= MaxPixels } }

NoImage == [channels |-> 0, width |-> 0, height |-> 0, pixels |-> <<>>]

NoTree == [nodes |-> {}, links |-> {}, diffuse_color |-> <<>>,
           transparent_color |-> <<>>, mix_fac |-> -1]

\* materials another import or the user left in bpy.data.materials
ExistingMaterial(name) ==
    [name |-> name, diffuse_color |-> <<0, 0, 0, One>>,
     use_nodes |-> FALSE, node_tree |-> NoTree]

ExistingRegistries ==
    { <<>>,
      << ExistingMaterial(Format(MATERIAL_NAME,
              PixParams(<<>>, StrColor(<<One - 2, 0, 0, One>>), 0, 0, <<>>)).out),
         ExistingMaterial(Format(MATERIAL_BY_X,
              PixParams(<<>>, <<>>, 1, 0, <<>>)).out) >> }

----------------------------------------------------------------------------
(* State                                                                   *)

VARIABLES
    cfg,                 \* the operator's properties (self.*)
    image,               \* the decoded image, NoImage before the load
    bpy_data_images,     \* ids of the images the host holds
    bpy_data_materials,  \* host material registry, id = index
    bpy_data_meshes,     \* host mesh registry
    bpy_data_objects,    \* host object registry
    pc,                  \* position in execute / read_pixel_art
    x, y, a,             \* loop variables and the alpha local
    color,               \* color key of the pixel being processed
    parent,              \* id of the group node
    materials,           \* run-local dict color -> material id
    material,            \* material resolved for the current pixel
    mesh,                \* mesh made for the current pixel
    result,              \* return value, or the exception that escaped
    reports,             \* self.report calls
    calls,               \* host calls on the image, counted
    log,                 \* material lookups and creations, by pixel position
    held                 \* per processed pixel, the registry material that
                         \* carried the pixel's computed name when it was read

vars == <<cfg, image, bpy_data_images, bpy_data_materials, bpy_data_meshes,
          bpy_data_objects, pc, x, y, a, color, parent, materials, material,
          mesh, result, reports, calls, log, held>>

host == <<bpy_data_materials, bpy_data_meshes, bpy_data_objects>>
locals == <<x, y, a, color, parent, materials, material, mesh>>

Init ==
    /\ cfg \in { [filepath |-> FILEPATH, use_nodes |-> u, reuse_materials |-> r,
                  names |-> t] :
                    u \in BOOLEAN, r \in BOOLEAN, t \in TemplateChoices }
    /\ bpy_data_materials \in ExistingRegistries
    /\ image = NoImage
    /\ bpy_data_images = {}
    /\ bpy_data_meshes = <<>>
    /\ bpy_data_objects = <<>>
    /\ pc = "execute"
    /\ x = 0 /\ y = 0 /\ a = One
    /\ color = <<>>
    /\ parent = None
    /\ materials = <<>>
    /\ material = None
    /\ mesh = None
    /\ result = "none"
    /\ reports = <<>>
    /\ calls = [load |-> 0, user_clear |-> 0, remove |-> 0]
    /\ log = {}
    /\ held = <<>>

----------------------------------------------------------------------------
(* Helpers of read_pixel_art                                               *)

AnyChannels == 1..4

\* line 73
SupportedChannels == {1, 3, 4}

cube_verts == << <<0, 0, 0>>, <<1, 0, 0>>, <<1, 1, 0>>, <<0, 1, 0>>,
                 <<0, 0, 1>>, <<1, 0, 1>>, <<1, 1, 1>>, <<0, 1, 1>> >>
cube_edges == << >>
cube_faces == << <<0, 1, 2, 3>>, <<0, 1, 5, 4>>, <<1, 2, 6, 5>>,
                 <<4, 5, 6, 7>>, <<2, 3, 7, 6>>, <<0, 3, 7, 4>> >>

filename == Basename(cfg.filepath)
struse_nodes == StrUseNodes(cfg.use_nodes)

\* row-major position of the pixel the loop is at
Position == y * image.width + x

\* pixels[i], 0-based; reading past the buffer raises IndexError
InBuffer(i) == (i + 1) \in DOMAIN image.pixels

\* lines 85-99: the samples of pixel (x, y); alpha keeps its previous value
\* unless the image has four channels
ReadPixel ==
    LET channels == image.channels
        offset == y * channels * image.width
        index == offset + x * channels
        px == image.pixels
    IN  IF channels = 1
        THEN IF InBuffer(offset + x)
             THEN [ok |-> TRUE, r |-> px[offset + x + 1], g |-> px[offset + x + 1],
                   b |-> px[offset + x + 1], a |-> a]
             ELSE [ok |-> FALSE, r |-> 0, g |-> 0, b |-> 0, a |-> a]
        ELSE IF channels = 3
        THEN IF InBuffer(index + 2)
             THEN [ok |-> TRUE, r |-> px[index + 1], g |-> px[index + 2],
                   b |-> px[index + 3], a |-> a]
             ELSE [ok |-> FALSE, r |-> 0, g |-> 0, b |-> 0, a |-> a]
        ELSE IF InBuffer(index + 3)
             THEN [ok |-> TRUE, r |-> px[index + 1], g |-> px[index + 2],
                   b |-> px[index + 3], a |-> px[index + 4]]
             ELSE [ok |-> FALSE, r |-> 0, g |-> 0, b |-> 0, a |-> a]

NeverSkipped(channels, alpha) == FALSE

\* lines 94-102: only the four-channel branch tests alpha
IsSkipped(channels, alpha) == channels \notin {1, 3} /\ alpha = 0

CacheGetByHex(cache, c) ==
    IF \E k \in DOMAIN cache : StrColor(k) = StrColor(c)
    THEN cache[CHOOSE k \in DOMAIN cache : StrColor(k) = StrColor(c)]
    ELSE None

\* materials.get(color)
CacheGet(cache, c) == IF c \in DOMAIN cache THEN cache[c] ELSE None

CacheForget(cache, c, m) == cache

\* materials[color] = material
CachePut(cache, c, m) == (c :> m) @@ cache

\* bpy.data.materials.get(name)
RegistryGet(registry, name) ==
    IF \E m \in DOMAIN registry : registry[m].name = name
    THEN CHOOSE m \in DOMAIN registry : registry[m].name = name
    ELSE None

LookupNever(reuse_materials, registry, name) == None

\* lines 112-113
Lookup(reuse_materials, registry, name) ==
    IF reuse_materials THEN RegistryGet(registry, name) ELSE None

\* the name bpy.data.materials.new gives: the requested one, or with a
\* numeric suffix when a material of that name exists
UniqueName(registry, name) ==
    IF RegistryGet(registry, name) = None THEN name
    ELSE LET taken(k) == RegistryGet(registry, name \o <<".", "0", "0", ToString(k)>>) # None
             k == CHOOSE k \in 1..(Len(registry) + 1) :
                     /\ ~taken(k)
                     /\ \A j \in 1..(k - 1) : taken(j)
         IN  name \o <<".", "0", "0", ToString(k)>>

\* the tree the host gives a material when use_nodes is set
DefaultTree ==
    [nodes |-> {"ShaderNodeBsdfPrincipled", "ShaderNodeOutputMaterial"},
     links |-> {<<"ShaderNodeBsdfPrincipled", "ShaderNodeOutputMaterial", 0>>},
     diffuse_color |-> <<>>, transparent_color |-> <<>>, mix_fac |-> -1]

ShaderGraphOpaque(c, alpha) ==
    [nodes |-> {"ShaderNodeBsdfDiffuse", "ShaderNodeOutputMaterial"},
     links |-> {<<"ShaderNodeBsdfDiffuse", "ShaderNodeOutputMaterial", 0>>},
     diffuse_color |-> c, transparent_color |-> <<>>, mix_fac |-> -1]

\* lines 123-143: a link is <<from node, to node, input index>>
ShaderGraph(c, alpha) ==
    IF alpha < One
    THEN [nodes |-> {"ShaderNodeBsdfDiffuse", "ShaderNodeOutputMaterial",
                     "ShaderNodeMixShader", "ShaderNodeBsdfTransparent"},
          links |-> {<<"ShaderNodeBsdfDiffuse", "ShaderNodeMixShader", 1>>,
                     <<"ShaderNodeBsdfTransparent", "ShaderNodeMixShader", 2>>,
                     <<"ShaderNodeMixShader", "ShaderNodeOutputMaterial", 0>>},
          diffuse_color |-> c, transparent_color |-> c, mix_fac |-> alpha]
    ELSE [nodes |-> {"ShaderNodeBsdfDiffuse", "ShaderNodeOutputMaterial"},
          links |-> {<<"ShaderNodeBsdfDiffuse", "ShaderNodeOutputMaterial", 0>>},
          diffuse_color |-> c, transparent_color |-> <<>>, mix_fac |-> -1]

NoMaterials(m) == << >>

\* mesh.materials.append(material) on a new mesh
MeshMaterials(m) == << m >>

\* params of the pixel being processed (line 106)
params == PixParams(filename, StrColor(color), x, y, struse_nodes)

----------------------------------------------------------------------------
(* ImportPixelArt.execute                                                  *)

\* lines 184-190: what is validated, in order, with the stand-in values
pix_params ==
    [k \in {"{filename}", "{color}", "{x}", "{y}", "{use_nodes}"} |->
        CASE k = "{color}" -> <<"A", "A", "B", "B", "C", "C", "D", "D">>
          [] k \in {"{x}", "{y}"} -> StrInt(0)
          [] OTHER -> <<>>]

Validated ==
    << [name |-> "object name", value |-> cfg.names.parent_name,
        params |-> ParentParams(<<>>, <<>>)],
       [name |-> "material names", value |-> cfg.names.material_name,
        params |-> pix_params],
       [name |-> "mesh names", value |-> cfg.names.mesh_name,
        params |-> pix_params],
       [name |-> "pixel names", value |-> cfg.names.cube_name,
        params |-> pix_params] >>

ValidationError(i) == Format(Validated[i].value, Validated[i].params).err

\* index of the first template whose format call raises, 0 if none does
FirstInvalid ==
    IF \E i \in 1..Len(Validated) : ValidationError(i) # "none"
    THEN CHOOSE i \in 1..Len(Validated) :
            /\ ValidationError(i) # "none"
            /\ \A j \in 1..(i - 1) : ValidationError(j) = "none"
    ELSE 0

\* lines 182-206: ValueError and KeyError are reported; any other exception
\* of str.format escapes execute
Execute ==
    /\ pc = "execute"
    /\ IF FirstInvalid = 0
       THEN /\ pc' = "load"
            /\ UNCHANGED <<result, reports>>
       ELSE LET e == ValidationError(FirstInvalid) IN
            IF e = "ValueError"
            THEN /\ reports' = Append(reports,
                        <<"ERROR", "Format error in", Validated[FirstInvalid].name>>)
                 /\ result' = "CANCELLED"
                 /\ pc' = "cancelled"
            ELSE IF e = "KeyError"
            THEN /\ reports' = Append(reports,
                        <<"ERROR", "Illegal key used in", Validated[FirstInvalid].name>>)
                 /\ result' = "CANCELLED"
                 /\ pc' = "cancelled"
            ELSE /\ result' = e
                 /\ pc' = "raised"
                 /\ UNCHANGED reports
    /\ UNCHANGED <<cfg, image, bpy_data_images, host, locals, calls, log, held>>

----------------------------------------------------------------------------
(* read_pixel_art                                                          *)

\* lines 157-159: image.user_clear(); bpy.data.images.remove(image)
ReleaseImage ==
    /\ calls' = [calls EXCEPT !.user_clear = @ + 1, !.remove = @ + 1]
    /\ bpy_data_images' = bpy_data_images \ {image}

RaiseWithoutFinally(e) ==
    /\ UNCHANGED <<calls, bpy_data_images>>
    /\ pc' = "raised"
    /\ result' = e

\* an exception raised inside the try block (lines 65-155): the finally
\* block runs, then the exception leaves read_pixel_art and execute
Raise(e) ==
    /\ ReleaseImage
    /\ pc' = "raised"
    /\ result' = e

\* line 63: the host decodes the file
LoadImage ==
    /\ pc = "load"
    /\ \E f \in Images :
        /\ image' = f
        /\ bpy_data_images' = bpy_data_images \cup {f}
    /\ calls' = [calls EXCEPT !.load = @ + 1]
    /\ pc' = "channels"
    /\ UNCHANGED <<cfg, host, locals, result, reports, log, held>>

\* line 63 raises: the file cannot be read; nothing was loaded
LoadError ==
    /\ pc = "load"
    /\ calls' = [calls EXCEPT !.load = @ + 1]
    /\ pc' = "raised"
    /\ result' = "RuntimeError"
    /\ UNCHANGED <<cfg, image, bpy_data_images, host, locals, reports, log, held>>

\* lines 72-74
CheckChannels ==
    /\ pc = "channels"
    /\ IF image.channels \notin SupportedChannels
       THEN Raise("IOError")
       ELSE /\ pc' = "new_parent"
            /\ UNCHANGED <<calls, bpy_data_images, result>>
    /\ UNCHANGED <<cfg, image, host, locals, reports, log, held>>

\* lines 76-84: the group node, then the loop starts
NewParent ==
    /\ pc = "new_parent"
    /\ LET f == Format(cfg.names.parent_name, ParentParams(filename, struse_nodes)) IN
       IF f.err # "none"
       THEN /\ Raise(f.err)
            /\ UNCHANGED <<bpy_data_objects, parent, materials, a, x, y>>
       ELSE /\ bpy_data_objects' = Append(bpy_data_objects,
                    [name |-> f.out, data |-> None, location |-> <<0, 0, 0>>,
                     parent |-> None, linked |-> TRUE])
            /\ parent' = Len(bpy_data_objects) + 1
            /\ materials' = << >>
            /\ a' = One
            /\ x' = 0 /\ y' = 0
            /\ pc' = IF image.height > 0 /\ image.width > 0 THEN "pixel" ELSE "return"
            /\ UNCHANGED <<calls, bpy_data_images, result>>
    /\ UNCHANGED <<cfg, image, bpy_data_materials, bpy_data_meshes, color,
                   material, mesh, reports, log, held>>

\* the for statements of lines 84 and 86 step to the next pixel or end
Advance ==
    IF x + 1 < image.width
    THEN x' = x + 1 /\ y' = y /\ pc' = "pixel"
    ELSE IF y + 1 < image.height
    THEN x' = 0 /\ y' = y + 1 /\ pc' = "pixel"
    ELSE x' = x /\ y' = y /\ pc' = "return"

\* lines 87-116: read the pixel, skip it or resolve its material from the
\* run-local dict, then (reuse mode) from the host registry
Pixel ==
    /\ pc = "pixel"
    /\ LET px == ReadPixel
           c == <<px.r, px.g, px.b, px.a>>
           f == Format(cfg.names.material_name,
                       PixParams(filename, StrColor(c), x, y, struse_nodes))
           cached == CacheGet(materials, c)
           found == Lookup(cfg.reuse_materials, bpy_data_materials, f.out)
       IN
       IF ~px.ok
       THEN /\ Raise("IndexError")
            /\ UNCHANGED <<x, y, a, color, materials, material, log, held>>
       ELSE IF IsSkipped(image.channels, px.a)
       THEN /\ a' = px.a
            /\ Advance
            /\ UNCHANGED <<calls, bpy_data_images, result, color, materials,
                           material, log, held>>
       ELSE IF f.err # "none"
       THEN /\ Raise(f.err)
            /\ a' = px.a
            /\ color' = c
            /\ UNCHANGED <<x, y, materials, material, log, held>>
       ELSE /\ a' = px.a
            /\ color' = c
            /\ held' = (Position :> RegistryGet(bpy_data_materials, f.out)) @@ held
            /\ UNCHANGED <<x, y, calls, bpy_data_images, result>>
            /\ IF cached # None
               THEN /\ material' = cached
                    /\ pc' = "mesh"
                    /\ log' = log \cup {[op |-> "cache_get", p |-> Position, m |-> cached]}
                    /\ UNCHANGED materials
               ELSE /\ log' = log \cup
                        {[op |-> "cache_get", p |-> Position, m |-> None]} \cup
                        (IF cfg.reuse_materials
                         THEN {[op |-> "registry_get", p |-> Position, m |-> found]}
                         ELSE {})
                    /\ IF found # None
                       THEN /\ materials' = CachePut(materials, c, found)
                            /\ material' = found
                            /\ pc' = "mesh"
                       ELSE /\ material' = None
                            /\ pc' = "mat_new"
                            /\ UNCHANGED materials
    /\ UNCHANGED <<cfg, image, host, parent, mesh, reports>>

\* lines 118-120: a new material, cached at once; setting use_nodes makes
\* the host give it its default tree
MaterialNew ==
    /\ pc = "mat_new"
    /\ LET id == Len(bpy_data_materials) + 1
           name == Format(cfg.names.material_name, params).out
       IN /\ bpy_data_materials' = Append(bpy_data_materials,
                [name |-> UniqueName(bpy_data_materials, name),
                 diffuse_color |-> color,
                 use_nodes |-> cfg.use_nodes,
                 node_tree |-> IF cfg.use_nodes THEN DefaultTree ELSE NoTree])
          /\ material' = id
          /\ materials' = CachePut(materials, color, id)
          /\ log' = log \cup {[op |-> "new", p |-> Position, m |-> id]}
    /\ pc' = IF cfg.use_nodes THEN "nodes" ELSE "mesh"
    /\ UNCHANGED <<cfg, image, bpy_data_images, bpy_data_meshes, bpy_data_objects,
                   x, y, a, color, parent, mesh, result, reports, calls, held>>

\* lines 122-143
BuildNodes ==
    /\ pc = "nodes"
    /\ bpy_data_materials' =
          [bpy_data_materials EXCEPT ![material].node_tree = ShaderGraph(color, a)]
    /\ pc' = "mesh"
    /\ UNCHANGED <<cfg, image, bpy_data_images, bpy_data_meshes, bpy_data_objects,
                   locals, result, reports, calls, log, held>>

\* lines 145-149
MeshNew ==
    /\ pc = "mesh"
    /\ LET f == Format(cfg.names.mesh_name, params) IN
       IF f.err # "none"
       THEN /\ Raise(f.err)
            /\ UNCHANGED <<bpy_data_meshes, mesh>>
       ELSE /\ bpy_data_meshes' = Append(bpy_data_meshes,
                    [name |-> f.out, verts |-> Len(cube_verts),
                     edges |-> Len(cube_edges), faces |-> Len(cube_faces),
                     materials |-> MeshMaterials(material)])
            /\ mesh' = Len(bpy_data_meshes) + 1
            /\ pc' = "object"
            /\ UNCHANGED <<calls, bpy_data_images, result>>
    /\ UNCHANGED <<cfg, image, bpy_data_materials, bpy_data_objects, x, y, a,
                   color, parent, materials, material, reports, log, held>>

\* lines 151-155, then the next iteration
ObjectNew ==
    /\ pc = "object"
    /\ LET f == Format(cfg.names.cube_name, params) IN
       IF f.err # "none"
       THEN /\ Raise(f.err)
            /\ UNCHANGED <<bpy_data_objects, x, y>>
       ELSE /\ bpy_data_objects' = Append(bpy_data_objects,
                    [name |-> f.out, data |-> mesh, location |-> <<x, y, 0>>,
                     parent |-> parent, linked |-> TRUE])
            /\ Advance
            /\ UNCHANGED <<calls, bpy_data_images, result>>
    /\ UNCHANGED <<cfg, image, bpy_data_materials, bpy_data_meshes, a, color,
                   parent, materials, material, mesh, reports, log, held>>

\* a host call of lines 77-153 raises before it changes anything
HostError ==
    /\ pc \in {"new_parent", "mat_new", "nodes", "mesh", "object"}
    /\ Raise("RuntimeError")
    /\ UNCHANGED <<cfg, image, host, locals, reports, log, held>>

\* the loop ends: lines 157-164
Return ==
    /\ pc = "return"
    /\ ReleaseImage
    /\ result' = "FINISHED"
    /\ pc' = "done"
    /\ UNCHANGED <<cfg, image, host, locals, reports, log, held>>

Next ==
    \/ Execute
    \/ LoadImage
    \/ LoadError
    \/ CheckChannels
    \/ NewParent
    \/ Pixel
    \/ MaterialNew
    \/ BuildNodes
    \/ MeshNew
    \/ ObjectNew
    \/ HostError
    \/ Return

Spec == Init /\ [][Next]_vars

TypeOK == pc \in {"execute", "load", "channels", "new_parent", "pixel", "mat_new",
                  "nodes", "mesh", "object", "return", "done", "raised", "cancelled"}

----------------------------------------------------------------------------
(* What the properties speak of                                            *)

Terminal == pc \in {"done", "raised", "cancelled"}
Loaded == image # NoImage
Released == calls.user_clear = 1 /\ calls.remove = 1 /\ image \notin bpy_data_images

Positions == 0..(image.width * image.height - 1)

\* the (r, g, b, a) of the pixel at row-major position p, read off the file
ColorAt(p) ==
    LET ch == image.channels
        s == [i \in 1..ch |-> image.pixels[p * ch + i]]
    IN  CASE ch = 1 -> <<s[1], s[1], s[1], One>>
          [] ch = 3 -> <<s[1], s[2], s[3], One>>
          [] ch = 4 -> <<s[1], s[2], s[3], s[4]>>
          [] OTHER -> <<>>

Included(p) == ColorAt(p)[4] # 0

GroupNodes == {o \in DOMAIN bpy_data_objects : bpy_data_objects[o].data = None}
Cubes == {o \in DOMAIN bpy_data_objects : bpy_data_objects[o].data # None}
CubeMaterials(o) == bpy_data_meshes[bpy_data_objects[o].data].materials

CubesAt(p) ==
    {o \in Cubes : bpy_data_objects[o].location =
                      <<p % image.width, p \div image.width, 0>>}
HasCube(p) == CubesAt(p) # {}
\* the material of the cube at p
MaterialOf(p) == CubeMaterials(CHOOSE o \in CubesAt(p) : TRUE)[1]

Created == {e.m : e \in {e \in log : e.op = "new"}}
Referenced(m) ==
    \E o \in Cubes : \E i \in DOMAIN CubeMaterials(o) : CubeMaterials(o)[i] = m
InMesh(m) ==
    \E k \in DOMAIN bpy_data_meshes :
        \E i \in DOMAIN bpy_data_meshes[k].materials :
            bpy_data_meshes[k].materials[i] = m

SceneUntouched ==
    /\ bpy_data_objects = << >>
    /\ bpy_data_meshes = << >>
    /\ Created = {}
    /\ bpy_data_materials \in ExistingRegistries

----------------------------------------------------------------------------
(* C1: release of the decoded image                                        *)

\* C1 as stated: on whichever path a run of the import operation ends
\* (success, template validation failure, unsupported channel count, host
\* error), the image release has been invoked exactly once.
C1_ReleasedOnceOnEveryExit ==
    Terminal => calls.user_clear = 1 /\ calls.remove = 1

\* C1 amended: the release is never invoked twice; a run that loaded the
\* image ends with exactly one release (user_clear, then removal from the
\* host registry) on whichever path it leaves; a run that ends at template
\* validation, or whose load call fails, loaded no image and releases none.
C1_ReleasedOncePerLoadedImage ==
    /\ calls.user_clear <= 1 /\ calls.remove <= 1
    /\ calls.user_clear = calls.remove
    /\ (Terminal /\ Loaded) => Released
    /\ (Terminal /\ ~Loaded) => calls.remove = 0 /\ bpy_data_images = {}
    /\ pc = "cancelled" => ~Loaded /\ calls.load = 0
    /\ ~Terminal => calls.remove = 0

C1_Witness ==
    /\ pc = "raised" /\ result = "RuntimeError"
    /\ Loaded /\ Released
    /\ Cubes # {}

----------------------------------------------------------------------------
(* C2: unsupported channel counts                                          *)

\* C2: an image whose channel count is not 1, 3 or 4 makes read_pixel_art
\* fail with the unsupported-channel-count error; no group node, cube, mesh
\* or material has been created, and the image is released.
C2_UnsupportedChannelsCreateNothing ==
    (Loaded /\ image.channels \notin {1, 3, 4}) =>
        /\ pc \in {"channels", "raised"}
        /\ SceneUntouched
        /\ pc = "raised" => result = "IOError" /\ Released

C2_Witness ==
    /\ Loaded /\ image.channels = 2
    /\ pc = "raised" /\ result = "IOError" /\ Released

----------------------------------------------------------------------------
(* C3: template validation                                                 *)

AllowedFields(i) ==
    IF i = 1 THEN {"{filename}", "{use_nodes}"}
    ELSE {"{filename}", "{color}", "{x}", "{y}", "{use_nodes}"}

\* some template references a field that is not allowed for it
IllegalFieldUsed ==
    \E i \in 1..Len(Validated) : \E k \in 1..Len(Validated[i].value) :
        /\ Validated[i].value[k] \in NamedFields \cup PositionalFields
        /\ Validated[i].value[k] \notin AllowedFields(i)

\* C3: when one of the four templates references a field that is not
\* allowed for it, execute reports an error and returns CANCELLED, before
\* the image is loaded and before anything is created in the scene.
C3_IllegalFieldCancels ==
    (pc # "execute" /\ IllegalFieldUsed) =>
        /\ pc = "cancelled" /\ result = "CANCELLED"
        /\ Len(reports) = 1 /\ reports[1][1] = "ERROR"
        /\ calls.load = 0 /\ ~Loaded
        /\ SceneUntouched

----------------------------------------------------------------------------
(* C4: fully opaque images                                                 *)

FullyOpaque ==
    /\ Loaded /\ image.channels \in {1, 3, 4}
    /\ \A p \in Positions : ColorAt(p)[4] = One

DistinctColors == {ColorAt(p) : p \in Positions}

CubesUnderOneGroupNode ==
    /\ Cardinality(GroupNodes) = 1
    /\ Cardinality(Cubes) = image.width * image.height
    /\ \A p \in Positions : Cardinality(CubesAt(p)) = 1
    /\ \A o \in Cubes :
        /\ bpy_data_objects[o].parent \in GroupNodes
        /\ bpy_data_objects[o].parent = parent
        /\ bpy_data_objects[o].linked

\* C4 as stated: a successful run on a fully opaque W x H image with K
\* distinct colors creates W*H cubes, all children of the one group node,
\* and exactly K materials.
C4_OpaqueCountsExact ==
    (pc = "done" /\ FullyOpaque) =>
        /\ CubesUnderOneGroupNode
        /\ Cardinality(Created) = Cardinality(DistinctColors)

\* C4 amended: such a run creates W*H cubes, all children of the one group
\* node, and exactly K materials when reuse_materials is off; when it is on,
\* at most K, since a color whose material name the registry holds gets the
\* registered material.
C4_OpaqueCounts ==
    (pc = "done" /\ FullyOpaque) =>
        /\ CubesUnderOneGroupNode
        /\ Cardinality(Created) <= Cardinality(DistinctColors)
        /\ ~cfg.reuse_materials =>
              Cardinality(Created) = Cardinality(DistinctColors)

C4_Witness ==
    /\ pc = "done" /\ FullyOpaque
    /\ ~cfg.reuse_materials
    /\ image.width = 2 /\ image.height = 2
    /\ Cardinality(DistinctColors) = 2
    /\ Cardinality(Created) = 2
    /\ Cardinality(Cubes) = 4

----------------------------------------------------------------------------
(* C5: the color key                                                       *)

----------------------------------------------------------------------------
(* C6: fully transparent pixels                                            *)

\* positions the loop has gone past or is at
Reached == {p \in Positions : p <= Position}

\* C6: in a 4-channel image a pixel of alpha 0 gets no cube and no mesh,
\* and no lookup in the run-local dict, no lookup in the host registry and
\* no material creation is made while it is processed: every such call is
\* made for a pixel of alpha above 0.
C6_TransparentPixelsUntouched ==
    (Loaded /\ image.channels = 4) =>
        /\ \A p \in Positions : ColorAt(p)[4] = 0 =>
              /\ ~HasCube(p)
              /\ \A e \in log : e.p # p
              /\ p \notin DOMAIN held
        /\ \A e \in log : e.p \in Positions /\ ColorAt(e.p)[4] > 0
        /\ Len(bpy_data_meshes) <=
              Cardinality({p \in Reached : ColorAt(p)[4] > 0})
        /\ \A k \in DOMAIN bpy_data_meshes :
              \E e \in log : /\ e.op \in {"cache_get", "registry_get", "new"}
                             /\ e.m = bpy_data_meshes[k].materials[1]
                             /\ ColorAt(e.p)[4] > 0

C6_Witness ==
    /\ pc = "done" /\ image.channels = 4
    /\ \E p, q \in Positions :
        /\ p < q
        /\ ColorAt(p)[4] = 0 /\ ~HasCube(p)
        /\ ColorAt(q)[4] > 0 /\ HasCube(q)

----------------------------------------------------------------------------
(* C7: reuse of registered materials                                       *)

CacheMiss(p) == [op |-> "cache_get", p |-> p, m |-> None] \in log
CreatedAt(p) == \E e \in log : e.op = "new" /\ e.p = p

\* a material the run did not create is as it was before the run
Untouched(m) == bpy_data_materials[m] = ExistingMaterial(bpy_data_materials[m].name)

\* C7 as stated: with reuse_materials on, a pixel for whose computed name
\* the registry holds a material gets that material on its cube, no
\* material is created for it, and the registered material is unchanged.
C7_RegisteredNameIsReused ==
    \A p \in DOMAIN held :
        (cfg.reuse_materials /\ held[p] # None) =>
            /\ ~CreatedAt(p)
            /\ HasCube(p) => MaterialOf(p) = held[p]
            /\ held[p] \notin Created => Untouched(held[p])

\* C7 amended: with reuse_materials on, a pixel whose color is not yet in
\* the run-local dict and for whose computed name the registry holds a
\* material gets that material on its cube, as does every later pixel of
\* that color; no material is created for it and no property of the
\* registered material changes. (A color already in the dict is not looked
\* up again, whatever name the template gives its later pixels.)
C7_RegisteredNameIsReusedOnMiss ==
    /\ \A p \in DOMAIN held :
        (cfg.reuse_materials /\ held[p] # None /\ CacheMiss(p)) =>
            /\ ~CreatedAt(p)
            /\ [op |-> "registry_get", p |-> p, m |-> held[p]] \in log
            /\ materials[ColorAt(p)] = held[p]
            /\ \A q \in Positions :
                  (HasCube(q) /\ ColorAt(q) = ColorAt(p)) => MaterialOf(q) = held[p]
            /\ (p = Position /\ pc \in {"mesh", "object"}) => material = held[p]
    /\ \A m \in DOMAIN bpy_data_materials : m \notin Created => Untouched(m)

C7_Witness ==
    /\ pc = "done" /\ cfg.reuse_materials
    /\ \E p \in DOMAIN held :
        /\ held[p] # None /\ held[p] \notin Created
        /\ CacheMiss(p) /\ HasCube(p) /\ MaterialOf(p) = held[p]
        /\ \E q \in Positions : q > p /\ HasCube(q) /\ MaterialOf(q) = held[p]

----------------------------------------------------------------------------
(* C8: cubes and materials                                                 *)

EveryCubeHasOneMaterial ==
    \A o \in Cubes :
        /\ Len(CubeMaterials(o)) = 1
        /\ CubeMaterials(o)[1] \in DOMAIN bpy_data_materials

\* C8 as stated: in every state during and after a run, failed runs
\* included, every cube references exactly one material and every material
\* the run created is referenced by a cube.
C8_CubesAndMaterialsAlways ==
    /\ EveryCubeHasOneMaterial
    /\ \A m \in Created : Referenced(m)

\* C8 amended: in every state every cube references exactly one material;
\* every material the run created is referenced by a cube except, while its
\* first pixel is being processed, the newest one; a run that returns
\* FINISHED leaves none unreferenced, a run that fails between creating a
\* material and creating its cube leaves that one material unreferenced.
C8_CubesAndMaterials ==
    /\ EveryCubeHasOneMaterial
    /\ \A m \in Created :
        \/ Referenced(m)
        \/ /\ m = material
           /\ m = Len(bpy_data_materials)
           /\ pc \in {"nodes", "mesh", "object", "raised"}
           /\ [op |-> "new", p |-> Position, m |-> m] \in log
    /\ pc \in {"pixel", "return", "done"} => \A m \in Created : Referenced(m)

C8_Witness ==
    /\ pc = "raised"
    /\ Cubes # {}
    /\ \E m \in Created : ~Referenced(m)
    /\ \E m \in Created : Referenced(m)

----------------------------------------------------------------------------
(* C9: failure in the pixel loop                                           *)

\* a host call failed while the pixel at Position was processed
FailedInLoop == pc = "raised" /\ result = "RuntimeError" /\ parent # None

\* C9: after a host call failed at row-major position p the group node and
\* the cube and material of every included pixel before p are in the scene,
\* no pixel after p has an object, and the image was released before the
\* error left read_pixel_art.
C9_FailureKeepsPrefix ==
    FailedInLoop =>
        /\ parent \in GroupNodes
        /\ \A q \in Positions : (q < Position /\ Included(q)) =>
              /\ Cardinality(CubesAt(q)) = 1
              /\ Len(CubeMaterials(CHOOSE o \in CubesAt(q) : TRUE)) = 1
              /\ MaterialOf(q) \in DOMAIN bpy_data_materials
              /\ MaterialOf(q) = materials[ColorAt(q)]
        /\ \A q \in Positions : q >= Position => ~HasCube(q)
        /\ Cardinality(Cubes) = Cardinality({q \in Positions : q < Position /\ Included(q)})
        /\ Released

C9_Witness ==
    /\ FailedInLoop
    /\ Position = 2
    /\ Cardinality(Cubes) = 2
    /\ Created # {}
    /\ Position + 1 \in Positions

----------------------------------------------------------------------------
(* C10: the node graph of a new material                                   *)

\* the construction of material m has run to its end
Built(m) == InMesh(m) \/ (m = material /\ pc \in {"mesh", "object"})

DirectGraph(t, c) ==
    /\ t.nodes = {"ShaderNodeBsdfDiffuse", "ShaderNodeOutputMaterial"}
    /\ t.links = {<<"ShaderNodeBsdfDiffuse", "ShaderNodeOutputMaterial", 0>>}
    /\ t.diffuse_color = c

MixGraph(t, c) ==
    /\ t.nodes = {"ShaderNodeBsdfDiffuse", "ShaderNodeOutputMaterial",
                  "ShaderNodeMixShader", "ShaderNodeBsdfTransparent"}
    /\ t.links = {<<"ShaderNodeBsdfDiffuse", "ShaderNodeMixShader", 1>>,
                  <<"ShaderNodeBsdfTransparent", "ShaderNodeMixShader", 2>>,
                  <<"ShaderNodeMixShader", "ShaderNodeOutputMaterial", 0>>}
    /\ t.mix_fac = c[4]
    /\ t.diffuse_color = c
    /\ t.transparent_color = c

\* C10: a material the run created and finished building has the pixel's
\* color; without use_nodes it has no node graph; with use_nodes and alpha 1
\* a diffuse node linked to the output; with use_nodes and alpha below 1 a
\* mix node of factor alpha fed by diffuse (input 1) and transparent (input
\* 2) and linked to the output. 1- and 3-channel images have alpha 1 and so
\* never a mix or transparent node.
C10_NodeGraphShape ==
    \A e \in log : (e.op = "new" /\ Built(e.m)) =>
        LET c == ColorAt(e.p)
            mat == bpy_data_materials[e.m]
        IN  /\ mat.diffuse_color = c
            /\ mat.use_nodes = cfg.use_nodes
            /\ ~cfg.use_nodes => mat.node_tree = NoTree
            /\ (cfg.use_nodes /\ c[4] = One) => DirectGraph(mat.node_tree, c)
            /\ (cfg.use_nodes /\ c[4] < One) => MixGraph(mat.node_tree, c)
            /\ image.channels \in {1, 3} =>
                  /\ c[4] = One
                  /\ "ShaderNodeMixShader" \notin mat.node_tree.nodes
                  /\ "ShaderNodeBsdfTransparent" \notin mat.node_tree.nodes

C10_Witness ==
    /\ pc = "done" /\ cfg.use_nodes
    /\ \E m, n \in Created :
        /\ "ShaderNodeMixShader" \in bpy_data_materials[m].node_tree.nodes
        /\ bpy_data_materials[m].node_tree.mix_fac = 255
        /\ DirectGraph(bpy_data_materials[n].node_tree, bpy_data_materials[n].diffuse_color)

====
